---- MODULE Spec2Model ----
(***************************************************************************)
(* Model of the NF-e ingestion pipeline of "Monitor NF-e/nfe_search.py":   *)
(* the continuous cycle ciclo_nsu, the cursor store (table nsu), the dedup *)
(* ledger (xmls_baixados), the detailed records (notas_detalhadas) and the *)
(* XML files written under xmls/.                                          *)
(*                                                                         *)
(* Conventions: an optional value is a sequence, <<>> for Python's None /  *)
(* a missing row and <<v>> for a present value.  An NSU text is a sequence *)
(* of decimal digits; the empty sequence is an absent or empty ultNSU.     *)
(***************************************************************************)
EXTENDS Integers, Sequences, FiniteSets, TLC

\* ------------------------------------------------------------------
\* Bounds of the model
\* ------------------------------------------------------------------
NumCerts == 2
MaxNsu == 2
MaxDocs == 2
MaxChave == 2
MaxNumero == 1
MaxTexto == 5
MaxBlocos == 2
MaxDirs == 2
MaxProcs == 2
MaxArqs == 2
MaxTx == 2
MaxPag == 2
MaxValor == 2
MaxMes == 2
NumBancos == 2

\* ------------------------------------------------------------------
\* Program constants
\* ------------------------------------------------------------------
NsuWidth == 15
EsperaRede == 180
EsperaErroGeral == 300
Intervalo == 3600

\* ------------------------------------------------------------------
\* Data
\* ------------------------------------------------------------------
Certificados == [i \in 1..NumCerts |-> [cnpj |-> i, inf |-> i]]
Informantes == {Certificados[i].inf : i \in 1..NumCerts}
Chaves == 1..MaxChave
Numeros == 1..MaxNumero

\* Decoded documents: an NF-e that passes validation and carries infNFe, a
\* document that validar_xml_auto rejects, and an event/summary document
\* (validation passes or is skipped, no infNFe element).
DocsNFe == {[tipo |-> "nfe", chave |-> k, nNF |-> n] : k \in Chaves, n \in Numeros}
DocInvalido == [tipo |-> "invalido", chave |-> 0, nNF |-> 0]
DocEvento == [tipo |-> "evento", chave |-> 0, nNF |-> 0]
Docs == DocsNFe \cup {DocInvalido, DocEvento}
SemDoc == [tipo |-> "", chave |-> 0, nNF |-> 0]

\* A distribution response: cStat, the text of ultNSU, the number of docZip
\* entries and the exception that decoding them raises, if any: bad base64
\* padding raises binascii.Error (a ValueError), a bad gzip stream raises
\* BadGzipFile (an OSError).  The payload of an entry is drawn when the
\* document loop reaches it, and the ultNSU of a response with documents when
\* line 92 reads it.
NsuTexts == {<<>>} \cup {<<d>> : d \in 1..MaxNsu}
\* cStat 137: no document found; 138: documents found; 656: consumo indevido
CStats == {"137", "138", "656"}
ZipErros == {"nenhum", "ValueError", "OSError"}
Resposta(c, u, n, e) == [cStat |-> c, ultNSU |-> u, nDocs |-> n, zipErro |-> e]
SemResposta == [cStat |-> "", ultNSU |-> <<>>, nDocs |-> 0, zipErro |-> "nenhum"]

\* ------------------------------------------------------------------
\* Pure functions
\* ------------------------------------------------------------------
\* str.zfill(15): left-pads with zeros, never truncates
Zfill(s, w) == IF Len(s) >= w THEN s ELSE [i \in 1..(w - Len(s)) |-> 0] \o s

\* XMLProcessor.extract_last_nsu
extract_last_nsu(resp) == IF Len(resp.ultNSU) = 0 THEN <<>> ELSE Zfill(resp.ultNSU, NsuWidth)

\* XMLProcessor.extract_cStat
extract_cStat(resp) == resp.cStat

\* XMLProcessor.extract_docs: no handler around the decoding of one entry, an
\* undecodable docZip raises out of the whole call
extract_docs_erro(resp) == resp.zipErro
extract_docs_len(resp) == resp.nDocs

\* String order of two NSU texts (Python str comparison)
NsuLt(a, b) ==
    \/ \E i \in 1..Len(a) : /\ i <= Len(b)
                            /\ \A j \in 1..(i-1) : a[j] = b[j]
                            /\ a[i] < b[i]
    \/ /\ Len(a) < Len(b)
       /\ \A j \in 1..Len(a) : a[j] = b[j]
NsuLeq(a, b) == a = b \/ NsuLt(a, b)

NsuInicial == [i \in 1..NsuWidth |-> 0]

\* ------------------------------------------------------------------
\* State
\* ------------------------------------------------------------------
VARIABLES
    pc,               \* position of ciclo_nsu
    certIdx,          \* index of the certificate of the for loop
    ult_nsu,          \* local variable ult_nsu of ciclo_nsu
    resp,             \* response handled by the last step or by the document loop
    docIdx,           \* index of the document of the batch being processed
    xml,              \* the document being processed (SemDoc when none)
    nsu,              \* table nsu: informante -> stored cursor, <<>> no row
    xmls_baixados,    \* table xmls_baixados: chave -> owner cnpj, 0 no row
    nf_status,        \* table nf_status: chave -> <<>> or <<[cStat, xMotivo]>>
    notas_detalhadas, \* table notas_detalhadas: chave -> <<>> or <<record>>
    arquivos,         \* files under xmls/: <<cnpj, nNF>> -> <<>> or <<doc>>
    gravou,           \* cursor writes made by the last step
    dormiu,           \* seconds slept by the last step
    handler,          \* except clause that caught an exception in the last step
    loteFalhou,       \* a document of the current batch raised
    vistos            \* the responses handled so far by this paging loop

\* State of the callers other than ciclo_nsu
VARIABLES
    chamada           \* last call of a DatabaseManager method made on its own

v_db == <<chamada>>

\* State of Atualizar.py: one call of limpa or of detectar_evento_cancelamento
VARIABLES
    apc,              \* "campo" / "limpo", "documento" / "detectado"
    campo,            \* the raw value given to limpa
    limpo,            \* the value limpa returned
    documento,        \* the file given to detectar_evento_cancelamento
    deteccao          \* the pair it returned

v_atualizar == <<apc, campo, limpo, documento, deteccao>>

\* State of main(), the distribution sweep followed by the status pass
VARIABLES
    mpc,              \* position of main()
    mIdx,             \* index of the certificate of the for loop of line 741
    faltam,           \* rows of get_chaves_missing_status still to be queried
    consulta,         \* key and outcome of the last iteration of line 772
    mresp             \* response of the last iteration of line 741

v_main == <<mpc, mIdx, faltam, consulta, mresp>>

\* State of one process that calls validar_xml_auto
VARIABLES
    vpc,              \* position of validar_xml_auto
    ventrada,         \* the document and the schema files of the call
    diretorio,        \* working directory of the process (os.getcwd())
    cwd,              \* local variable cwd of validar_xml_auto (line 339)
    diretorio_antes,  \* working directory when the call started
    vres              \* "True", "excecao" or "" while running

v_validador == <<vpc, ventrada, diretorio, cwd, diretorio_antes, vres>>

\* State of the interactive browser (interface.py) and of the nfe_search.py
\* processes it launched
VARIABLES
    procs,            \* one record for each launch of buscar_normal
    status            \* the text set_status showed last

v_gui == <<procs, status>>

\* State of the reconciliation pass of ciclo_nsu (lines 107-121) taken file
\* by file
VARIABLES
    rpc,              \* position: "r_inicio" (line 108), "r_arquivos" (line 109),
                      \* "r_dormir" (line 119), "r_geral" (line 123)
    rarqs,            \* the files under xmls/ in the order of the directory walk
    ridx,             \* index of the file of the for loop of line 109
    rfeitos           \* what happened to each file visited so far

v_rec == <<rpc, rarqs, ridx, rfeitos>>

\* State of one distribution response processed twice by the document loop
\* of ciclo_nsu (the cursor was not advanced, the same response came again)
VARIABLES
    lpc,              \* "l_docs" in the for loop of line 75, "l_fim" after both
    ldocs,            \* the decoded documents of the response
    lidx,             \* index of the document of the for loop
    lvez,             \* 1 or 2: which processing of the response this is
    lsnap             \* the ledger and the records after the first processing

v_lote == <<lpc, ldocs, lidx, lvez, lsnap>>

\* The ledger database of init_db.py for one company
VARIABLES
    bank_accounts,    \* bank id -> current_balance
    transactions,     \* transaction id -> <<>> or <<row>>
    payments,         \* payment id -> <<>> or <<row>>
    periods,          \* the months marked CLOSED
    sqlite_sequence,  \* the last AUTOINCREMENT id of each table
    stmt              \* how the last statement ended

v_erp == <<bank_accounts, transactions, payments, periods, sqlite_sequence, stmt>>

\* the groups added after the first callers
v_outros == <<v_rec, v_lote, v_erp>>

\* everything that ciclo_nsu does not touch
fora_do_ciclo == <<v_db, v_atualizar, v_main, v_validador, v_gui, v_outros>>

v_banco == <<nsu, xmls_baixados, nf_status, notas_detalhadas>>

\* the control state of ciclo_nsu and the files it writes
v_ciclo == <<pc, certIdx, ult_nsu, resp, docIdx, xml, arquivos, gravou, dormiu,
             handler, loteFalhou, vistos>>

\* what the other callers leave alone
fora_do_db == <<v_ciclo, v_atualizar, v_main, v_validador, v_gui, v_outros>>
fora_do_atualizar == <<v_ciclo, v_banco, v_db, v_main, v_validador, v_gui, v_outros>>
fora_do_main == <<v_ciclo, v_db, v_atualizar, v_validador, v_gui, v_outros>>
fora_do_validador == <<v_ciclo, v_banco, v_db, v_atualizar, v_main, v_gui, v_outros>>
fora_do_gui == <<v_ciclo, v_banco, v_db, v_atualizar, v_main, v_validador, v_outros>>


vars == <<pc, certIdx, ult_nsu, resp, docIdx, xml, nsu, xmls_baixados, nf_status,
          notas_detalhadas, arquivos, gravou, dormiu, handler, loteFalhou, vistos,
          fora_do_ciclo>>

Caminhos == (1..NumCerts) \X Numeros

\* ciclo_nsu not started
CicloParado ==
    /\ pc = "inicio"
    /\ certIdx = 0
    /\ ult_nsu = NsuInicial
    /\ resp = SemResposta
    /\ docIdx = 0
    /\ xml = SemDoc
    /\ arquivos = [p \in Caminhos |-> <<>>]
    /\ gravou = <<>>
    /\ dormiu = 0
    /\ handler = "nenhum"
    /\ loteFalhou = FALSE
    /\ vistos = "nenhuma"

\* the tables as _initialize and criar_tabela_detalhada create them
BancoVazio ==
    /\ nsu = [i \in Informantes |-> <<>>]
    /\ xmls_baixados = [k \in Chaves |-> 0]
    /\ nf_status = [k \in Chaves |-> <<>>]
    /\ notas_detalhadas = [k \in Chaves |-> <<>>]

SemChamada == [op |-> "", chave |-> 0, cnpj |-> 0, nota |-> <<>>, anterior |-> <<>>]
DbParado == chamada = SemChamada

SemCampo == [nulo |-> TRUE, txt |-> <<>>]
SemDocumento == [legivel |-> FALSE, blocos |-> <<>>]
Nada == [chave |-> 0, status |-> ""]
AtualizarParado ==
    /\ apc = "parado"
    /\ campo = SemCampo
    /\ limpo = <<>>
    /\ documento = SemDocumento
    /\ deteccao = Nada

SemConsulta == [chave |-> 0, resultado |-> ""]
MainParado ==
    /\ mpc = "parado"
    /\ mIdx = 0
    /\ faltam = <<>>
    /\ consulta = SemConsulta
    /\ mresp = SemResposta

SemEntrada == [raiz |-> "", xsd |-> 0, chdirOk |-> FALSE, xsdOk |-> FALSE, valido |-> FALSE]
ValidadorParado ==
    /\ vpc = "parado"
    /\ ventrada = SemEntrada
    /\ diretorio = 1
    /\ cwd = 0
    /\ diretorio_antes = 0
    /\ vres = ""

NaoLancado == [fase |-> "nao_lancado", cert |-> 0, consumo_detectado |-> FALSE, motivo |-> ""]
GuiParado ==
    /\ procs = [p \in 1..MaxProcs |-> NaoLancado]
    /\ status = ""

RecParado ==
    /\ rpc = "parado"
    /\ rarqs = <<>>
    /\ ridx = 0
    /\ rfeitos = <<>>

SemSnap == [xmls |-> <<>>, notas |-> <<>>]
LoteParado ==
    /\ lpc = "parado"
    /\ ldocs = <<>>
    /\ lidx = 0
    /\ lvez = 0
    /\ lsnap = SemSnap

Bancos == 1..NumBancos
TxIds == 1..MaxTx
PagIds == 1..MaxPag
Meses == 1..MaxMes
Valores == 1..MaxValor
\* the valor of the transactions entered: a payment can fall short of it
ValoresTitulo == {MaxValor}

SemStmt == [rejeitado |-> FALSE, fechado |-> FALSE]
\* the database as init_db.py creates it: no ledger rows, balances at their default
ErpParado ==
    /\ bank_accounts = [b \in Bancos |-> 0]
    /\ transactions = [t \in TxIds |-> <<>>]
    /\ payments = [p \in PagIds |-> <<>>]
    /\ periods = {}
    /\ sqlite_sequence = [transactions |-> 0, payments |-> 0]
    /\ stmt = SemStmt

OutrosParados == RecParado /\ LoteParado /\ ErpParado

ForaParado ==
    DbParado /\ AtualizarParado /\ MainParado /\ ValidadorParado /\ GuiParado /\ OutrosParados

Init == CicloParado /\ BancoVazio /\ ForaParado

\* ------------------------------------------------------------------
\* Store operations (DatabaseManager)
\* ------------------------------------------------------------------
\* DatabaseManager.get_last_nsu
get_last_nsu(informante) == IF nsu[informante] = <<>> THEN NsuInicial ELSE nsu[informante]

\* DatabaseManager.set_last_nsu: INSERT OR REPLACE, no ordering check
set_last_nsu(tab, informante, valor) == [tab EXCEPT ![informante] = valor]

\* variant of registrar_xml with INSERT OR REPLACE
registrar_xmlSubstitui(tab, chave, cnpj) == [tab EXCEPT ![chave] = cnpj]

\* DatabaseManager.registrar_xml: INSERT OR IGNORE into a table whose primary
\* key is chave (line 451), so a table is a function of the key
registrar_xml(tab, chave, cnpj) == IF tab[chave] = 0 THEN [tab EXCEPT ![chave] = cnpj] ELSE tab

\* variant of salvar_nota_detalhada on a table without primary key: the
\* INSERT adds a row
salvar_nota_detalhadaSemChavePrimaria(tab, nota) ==
    [tab EXCEPT ![nota.chave] = Append(@, nota)]

\* variant of salvar_nota_detalhada that keeps the status of an existing row
salvar_nota_detalhadaMantemStatus(tab, nota) ==
    LET antiga == tab[nota.chave]
    IN [tab EXCEPT ![nota.chave] =
          IF antiga = <<>> THEN <<nota>>
          ELSE <<[chave |-> nota.chave, numero |-> nota.numero, status |-> antiga[1].status]>>]

\* DatabaseManager.salvar_nota_detalhada: INSERT OR REPLACE
salvar_nota_detalhada(tab, nota) == [tab EXCEPT ![nota.chave] = <<nota>>]

\* DatabaseManager.set_nf_status: INSERT OR REPLACE
set_nf_status(tab, chave, cStat, xMotivo) ==
    [tab EXCEPT ![chave] = <<[cStat |-> cStat, xMotivo |-> xMotivo]>>]

StatusPadrao == <<"Autorizado o uso da NF-e">>

\* extrair_nota_detalhada: the projected record (status from nf_status)
extrair_nota_detalhada(doc, chave) ==
    LET st == nf_status[chave]
    IN [chave |-> chave,
        numero |-> doc.nNF,
        status |-> IF st # <<>> /\ st[1].cStat # "" /\ st[1].xMotivo # ""
                   THEN <<st[1].cStat, " - ", st[1].xMotivo>>
                   ELSE StatusPadrao]

\* extrair_nota_detalhada, lines 200-218: the record returned when the
\* projection raises (numero 0 stands for the empty text)
extrair_nota_detalhada_erro(chave) == [chave |-> chave, numero |-> 0, status |-> StatusPadrao]

\* salvar_xml_por_certificado: xmls/<cnpj>/<ano-mes>/<nNF>-<xNome>.xml
CaminhoXml(doc, cnpj) == <<cnpj, doc.nNF>>
salvar_xml_por_certificado(fs, doc, cnpj) == [fs EXCEPT ![CaminhoXml(doc, cnpj)] = <<doc>>]

\* ------------------------------------------------------------------
\* Decisions of ciclo_nsu
\* ------------------------------------------------------------------
\* variant of line 65 that writes whenever an ultNSU is present
GravaApos656SemComparar(ult, atual) == ult # <<>>

\* line 65: cursor write of a throttled response
GravaApos656(ult, atual) == ult # <<>> /\ ult # atual

\* variant of line 93 that goes on paging whenever an ultNSU is present
AvancaCursorSemComparar(ult, atual) == ult # <<>>

\* line 93: cursor advance after a batch (otherwise the paging loop ends)
AvancaCursor(ult, atual) == ult # <<>> /\ ult # atual

\* variant of lines 98-102 that gives the certificate up (break)
AposErroRedeDesiste == "cert"

\* lines 98-102: position after a network error of the inner try
AposErroRede == "espera_rede"

\* variant of lines 90-91 where the exception ends the document loop
AposErroDocAborta(i, n) == "avancar"

\* lines 90-91: position after an exception of document i of n
AposErroDoc(i, n) == IF i < n THEN "docs" ELSE "avancar"

\* variant of lines 123-126 without the handler: the process ends
AposErroGeralTermina == "fim"

\* lines 123-126: position after the top-level handler
AposErroGeral == "espera_geral"

\* line 126: position after the cooldown of the top-level handler
AposEsperaGeral == "inicio"

Efeito(g, d, h) == gravou' = g /\ dormiu' = d /\ handler' = h

Cert == Certificados[certIdx]

\* whether the responses of this paging loop, r included, are all
\* non-throttled and carry strictly increasing ultNSU values (inside the
\* loop the previous ultNSU is ult_nsu, line 95)
NovoVisto(r) ==
    IF /\ extract_cStat(r) # "656"
       /\ extract_last_nsu(r) # <<>>
       /\ \/ vistos = "nenhuma"
          \/ vistos = "crescente" /\ NsuLt(ult_nsu, extract_last_nsu(r))
    THEN "crescente" ELSE "outra"

Outros == CStats \ {"656"}

\* leave the paging loop: next certificate of the for loop
ProximoCert ==
    /\ pc' = "cert"
    /\ certIdx' = certIdx + 1
    /\ docIdx' = 0
    /\ xml' = SemDoc
    /\ loteFalhou' = FALSE
    /\ vistos' = "nenhuma"

\* position after a network error: the wait of line 101
ParaEsperaRede ==
    /\ pc' = AposErroRede
    /\ certIdx' = IF AposErroRede = "cert" THEN certIdx + 1 ELSE certIdx
    /\ docIdx' = 0
    /\ xml' = SemDoc
    /\ loteFalhou' = FALSE

\* the for loop of line 75 moves to the next document or ends
ProximoDoc(destino) ==
    /\ pc' = destino
    /\ docIdx' = docIdx + 1
    /\ IF destino = "docs" THEN \E d \in Docs : xml' = d ELSE xml' = SemDoc

tabelas == <<xmls_baixados, nf_status, notas_detalhadas, arquivos>>
lote == <<resp, docIdx, xml, loteFalhou>>

\* ------------------------------------------------------------------
\* ciclo_nsu
\* ------------------------------------------------------------------
\* lines 48-51: a cycle starts, the certificates are read
IniciarCiclo ==
    /\ pc = "inicio"
    /\ pc' = "cert"
    /\ certIdx' = 1
    /\ resp' = SemResposta
    /\ Efeito(<<>>, 0, "nenhum")
    /\ UNCHANGED <<ult_nsu, docIdx, xml, loteFalhou, nsu, tabelas, vistos>>
    /\ UNCHANGED fora_do_ciclo

\* line 51 raising (get_certificados): caught at line 123
IniciarCicloErro ==
    /\ pc = "inicio"
    /\ pc' = AposErroGeral
    /\ resp' = SemResposta
    /\ Efeito(<<>>, 0, "geral")
    /\ UNCHANGED <<certIdx, ult_nsu, docIdx, xml, loteFalhou, nsu, tabelas, vistos>>
    /\ UNCHANGED fora_do_ciclo

\* lines 52-55: service set up, cursor read
ProximoCertificado ==
    /\ pc = "cert"
    /\ certIdx <= NumCerts
    /\ pc' = "fetch"
    /\ ult_nsu' = get_last_nsu(Cert.inf)
    /\ resp' = SemResposta
    /\ Efeito(<<>>, 0, "nenhum")
    /\ UNCHANGED <<certIdx, docIdx, xml, loteFalhou, nsu, tabelas, vistos>>
    /\ UNCHANGED fora_do_ciclo

\* lines 53-54 raising: caught at line 103, next certificate
CertificadoErro ==
    /\ pc = "cert"
    /\ certIdx <= NumCerts
    /\ ProximoCert
    /\ resp' = SemResposta
    /\ Efeito(<<>>, 0, "certificado")
    /\ UNCHANGED <<ult_nsu, nsu, tabelas>>
    /\ UNCHANGED fora_do_ciclo

\* line 51: the for loop is exhausted
FimCertificados ==
    /\ pc = "cert"
    /\ certIdx > NumCerts
    /\ pc' = "reconciliar"
    /\ resp' = SemResposta
    /\ Efeito(<<>>, 0, "nenhum")
    /\ UNCHANGED <<certIdx, ult_nsu, docIdx, xml, loteFalhou, nsu, tabelas, vistos>>
    /\ UNCHANGED fora_do_ciclo

\* lines 659-669 and 59-61: fetch_by_cnpj catches the failed validation of the
\* request or the SOAP Fault and returns None; the paging loop breaks
FetchNone ==
    /\ pc = "fetch"
    /\ \E h \in {"fetch_xsd", "fetch_fault"} : Efeito(<<>>, 0, h)
    /\ ProximoCert
    /\ resp' = SemResposta
    /\ UNCHANGED <<ult_nsu, nsu, tabelas>>
    /\ UNCHANGED fora_do_ciclo

\* line 58 raising RequestException / OSError: caught at line 98
FetchErroRede ==
    /\ pc = "fetch"
    /\ ParaEsperaRede
    /\ resp' = SemResposta
    /\ Efeito(<<>>, 0, "rede")
    /\ UNCHANGED <<ult_nsu, nsu, tabelas, vistos>>
    /\ UNCHANGED fora_do_ciclo

\* line 58 raising any other exception: caught at line 103
FetchErroOutro ==
    /\ pc = "fetch"
    /\ ProximoCert
    /\ resp' = SemResposta
    /\ Efeito(<<>>, 0, "certificado")
    /\ UNCHANGED <<ult_nsu, nsu, tabelas>>
    /\ UNCHANGED fora_do_ciclo

\* lines 101-102: time.sleep(180), continue
EsperarRede ==
    /\ pc = "espera_rede"
    /\ pc' = "fetch"
    /\ resp' = SemResposta
    /\ Efeito(<<>>, EsperaRede, "nenhum")
    /\ UNCHANGED <<certIdx, ult_nsu, docIdx, xml, loteFalhou, nsu, tabelas, vistos>>
    /\ UNCHANGED fora_do_ciclo

\* lines 58-69: the fetch returns a throttled response (cStat 656)
FetchConsumoIndevido ==
    /\ pc = "fetch"
    /\ \E u \in NsuTexts, n \in 0..MaxDocs :
         LET r == Resposta("656", u, n, "nenhum")
             ult == extract_last_nsu(r)
         IN /\ resp' = r
            /\ IF GravaApos656(ult, ult_nsu)
               THEN /\ nsu' = set_last_nsu(nsu, Cert.inf, ult)
                    /\ Efeito(<<[inf |-> Cert.inf, valor |-> ult]>>, 0, "nenhum")
               ELSE /\ nsu' = nsu
                    /\ Efeito(<<>>, 0, "nenhum")
    /\ ProximoCert
    /\ UNCHANGED <<ult_nsu, tabelas>>
    /\ UNCHANGED fora_do_ciclo

\* lines 58-74: the fetch returns a response without docZip entries
FetchSemDocs ==
    /\ pc = "fetch"
    /\ \E u \in NsuTexts : resp' = Resposta("137", u, 0, "nenhum")
    /\ ProximoCert
    /\ Efeito(<<>>, 0, "nenhum")
    /\ UNCHANGED <<ult_nsu, nsu, tabelas>>
    /\ UNCHANGED fora_do_ciclo

\* lines 58-75: the fetch returns a response whose docZip entries all decode;
\* the document loop starts
FetchLote ==
    /\ pc = "fetch"
    /\ \E n \in 1..MaxDocs : resp' = Resposta("138", <<>>, n, "nenhum")
    /\ pc' = "docs"
    /\ docIdx' = 1
    /\ \E d \in Docs : xml' = d
    /\ loteFalhou' = FALSE
    /\ Efeito(<<>>, 0, "nenhum")
    /\ UNCHANGED <<certIdx, ult_nsu, nsu, tabelas, vistos>>
    /\ UNCHANGED fora_do_ciclo

\* lines 58-71, extract_docs raising: a gzip error is an OSError (caught at
\* line 98, wait and fetch again), a base64 error a ValueError (caught at 103)
FetchCorrompida ==
    /\ pc = "fetch"
    /\ \E n \in 1..MaxDocs, e \in ZipErros \ {"nenhum"} :
         LET r == Resposta("138", <<>>, n, e)
         IN /\ resp' = r
            /\ IF extract_docs_erro(r) = "OSError"
               THEN /\ ParaEsperaRede
                    /\ vistos' = vistos
                    /\ Efeito(<<>>, 0, "rede")
               ELSE /\ ProximoCert
                    /\ Efeito(<<>>, 0, "certificado")
    /\ UNCHANGED <<ult_nsu, nsu, tabelas>>
    /\ UNCHANGED fora_do_ciclo

NumDocs == extract_docs_len(resp)
\* variant of the for loop of line 75 that stops after one document
AposDocSaiCedo == "avancar"

\* line 75: the for loop goes to the next document or falls out to line 92
AposDoc == IF docIdx < NumDocs THEN "docs" ELSE "avancar"

\* lines 75-91, one iteration: validar_xml_auto raises for the document
ProcessarDocInvalido ==
    /\ pc = "docs"
    /\ xml.tipo = "invalido"
    /\ ProximoDoc(AposErroDoc(docIdx, NumDocs))
    /\ loteFalhou' = TRUE
    /\ Efeito(<<>>, 0, "doc")
    /\ UNCHANGED <<certIdx, ult_nsu, resp, nsu, tabelas, vistos>>
    /\ UNCHANGED fora_do_ciclo

\* lines 75-81, one iteration: no infNFe element, continue
ProcessarDocSemInfNFe ==
    /\ pc = "docs"
    /\ xml.tipo = "evento"
    /\ ProximoDoc(AposDoc)
    /\ Efeito(<<>>, 0, "nenhum")
    /\ UNCHANGED <<certIdx, ult_nsu, resp, loteFalhou, nsu, tabelas, vistos>>
    /\ UNCHANGED fora_do_ciclo

\* lines 75-89, one iteration for a valid NF-e: registrar_xml, the file
\* (salvar_xml_por_certificado swallows its own errors), the detailed record
ProcessarDocNFe ==
    /\ pc = "docs"
    /\ xml.tipo = "nfe"
    /\ xmls_baixados' = registrar_xml(xmls_baixados, xml.chave, Cert.cnpj)
    /\ \E discoOk \in BOOLEAN :
         arquivos' = IF discoOk THEN salvar_xml_por_certificado(arquivos, xml, Cert.cnpj)
                     ELSE arquivos
    /\ notas_detalhadas' =
          salvar_nota_detalhada(notas_detalhadas, extrair_nota_detalhada(xml, xml.chave))
    /\ ProximoDoc(AposDoc)
    /\ Efeito(<<>>, 0, "nenhum")
    /\ UNCHANGED <<certIdx, ult_nsu, resp, loteFalhou, nsu, nf_status, vistos>>
    /\ UNCHANGED fora_do_ciclo

\* lines 83-91, one iteration for a valid NF-e where the store raises: at
\* registrar_xml (nothing written) or at criar_tabela_detalhada /
\* salvar_nota_detalhada (ledger row and file already written)
ProcessarDocFalha ==
    /\ pc = "docs"
    /\ xml.tipo = "nfe"
    /\ \E onde \in {"registrar", "salvar"}, discoOk \in BOOLEAN :
         IF onde = "registrar"
         THEN UNCHANGED <<xmls_baixados, arquivos>>
         ELSE /\ xmls_baixados' = registrar_xml(xmls_baixados, xml.chave, Cert.cnpj)
              /\ arquivos' = IF discoOk THEN salvar_xml_por_certificado(arquivos, xml, Cert.cnpj)
                             ELSE arquivos
    /\ ProximoDoc(AposErroDoc(docIdx, NumDocs))
    /\ loteFalhou' = TRUE
    /\ Efeito(<<>>, 0, "doc")
    /\ UNCHANGED <<certIdx, ult_nsu, resp, nsu, nf_status, notas_detalhadas, vistos>>
    /\ UNCHANGED fora_do_ciclo

\* lines 92-97: the cursor advances and the loop fetches again, or the loop
\* ends; rastrear says whether the history variable vistos is kept
AvancarCursorR(rastrear) ==
    /\ pc = "avancar"
    /\ \E u \in NsuTexts :
         LET r == [resp EXCEPT !.ultNSU = u]
             ult == extract_last_nsu(r)
         IN /\ resp' = r
            /\ IF AvancaCursor(ult, ult_nsu)
               THEN /\ nsu' = set_last_nsu(nsu, Cert.inf, ult)
                    /\ ult_nsu' = ult
                    /\ pc' = "fetch"
                    /\ docIdx' = 0
                    /\ loteFalhou' = FALSE
                    /\ vistos' = IF rastrear THEN NovoVisto(r) ELSE vistos
                    /\ Efeito(<<[inf |-> Cert.inf, valor |-> ult]>>, 0, "nenhum")
                    /\ UNCHANGED <<certIdx, xml>>
               ELSE /\ ProximoCert
                    /\ Efeito(<<>>, 0, "nenhum")
                    /\ UNCHANGED <<nsu, ult_nsu>>
    /\ UNCHANGED tabelas
    /\ UNCHANGED fora_do_ciclo

AvancarCursor == AvancarCursorR(FALSE)
AvancarCursorVistos == AvancarCursorR(TRUE)

\* lines 66 / 94 raising (sqlite error of set_last_nsu): caught at line 103
GravarCursorErro ==
    /\ \/ /\ pc = "avancar"
          /\ \E u \in NsuTexts :
               /\ resp' = [resp EXCEPT !.ultNSU = u]
               /\ AvancaCursor(extract_last_nsu(resp'), ult_nsu)
       \/ /\ pc = "fetch"
          /\ \E u \in NsuTexts, n \in 0..MaxDocs :
               /\ resp' = Resposta("656", u, n, "nenhum")
               /\ GravaApos656(extract_last_nsu(resp'), ult_nsu)
    /\ ProximoCert
    /\ Efeito(<<>>, 0, "certificado")
    /\ UNCHANGED <<ult_nsu, nsu, tabelas>>
    /\ UNCHANGED fora_do_ciclo

\* lines 107-121: every readable file with a key gets its record rebuilt
ArquivosExistentes == {p \in Caminhos : arquivos[p] # <<>>}
ChavesDe(ps) == {arquivos[p][1].chave : p \in ps}
Reconciliar ==
    /\ pc = "reconciliar"
    /\ \E ok \in SUBSET ArquivosExistentes :
         \E ultimoArq \in [ChavesDe(ok) -> ok] :
            /\ \A k \in ChavesDe(ok) : arquivos[ultimoArq[k]][1].chave = k
            /\ notas_detalhadas' =
                 [k \in Chaves |->
                    IF k \in ChavesDe(ok)
                    THEN <<extrair_nota_detalhada(arquivos[ultimoArq[k]][1], k)>>
                    ELSE notas_detalhadas[k]]
    /\ pc' = "dormir"
    /\ Efeito(<<>>, 0, "nenhum")
    /\ UNCHANGED <<certIdx, ult_nsu, lote, nsu, xmls_baixados, nf_status, arquivos, vistos>>
    /\ UNCHANGED fora_do_ciclo

\* line 108 or the directory walk of line 109 raising: caught at line 123
ReconciliarErro ==
    /\ pc = "reconciliar"
    /\ pc' = AposErroGeral
    /\ Efeito(<<>>, 0, "geral")
    /\ UNCHANGED <<certIdx, ult_nsu, lote, nsu, tabelas, vistos>>
    /\ UNCHANGED fora_do_ciclo

\* line 121: time.sleep(intervalo), then the next cycle
Dormir ==
    /\ pc = "dormir"
    /\ pc' = "inicio"
    /\ Efeito(<<>>, Intervalo, "nenhum")
    /\ UNCHANGED <<certIdx, ult_nsu, lote, nsu, tabelas, vistos>>
    /\ UNCHANGED fora_do_ciclo

\* line 126: time.sleep(300), then the next cycle
EsperarErroGeral ==
    /\ pc = "espera_geral"
    /\ pc' = AposEsperaGeral
    /\ Efeito(<<>>, EsperaErroGeral, "nenhum")
    /\ UNCHANGED <<certIdx, ult_nsu, lote, nsu, tabelas, vistos>>
    /\ UNCHANGED fora_do_ciclo

Outras ==
    \/ IniciarCiclo
    \/ IniciarCicloErro
    \/ ProximoCertificado
    \/ CertificadoErro
    \/ FimCertificados
    \/ FetchNone
    \/ FetchErroRede
    \/ FetchErroOutro
    \/ EsperarRede
    \/ FetchConsumoIndevido
    \/ FetchSemDocs
    \/ FetchLote
    \/ FetchCorrompida
    \/ ProcessarDocInvalido
    \/ ProcessarDocSemInfNFe
    \/ ProcessarDocNFe
    \/ ProcessarDocFalha
    \/ GravarCursorErro
    \/ Reconciliar
    \/ ReconciliarErro
    \/ Dormir
    \/ EsperarErroGeral

Next == Outras \/ AvancarCursor
Spec == Init /\ [][Next]_vars

\* the same program with the history of the paging loop recorded
NextVistos == Outras \/ AvancarCursorVistos
SpecVistos == Init /\ [][NextVistos]_vars

TypeOK ==
    /\ pc \in {"inicio", "cert", "fetch", "docs", "avancar", "espera_rede",
               "reconciliar", "dormir", "espera_geral"}
    /\ certIdx \in 0..(NumCerts + 1)
    /\ docIdx \in 0..(MaxDocs + 1)
    /\ dormiu \in {0, EsperaRede, EsperaErroGeral, Intervalo}

\* ------------------------------------------------------------------
\* DatabaseManager and the projection called on their own, in any order
\* ------------------------------------------------------------------
\* rows that set_nf_status is given: parse_protNFe yields '' for a missing
\* element (lines 618-620)
LinhasStatus == {[cStat |-> "100", xMotivo |-> "Autorizado"], [cStat |-> "101", xMotivo |-> ""]}

DbRegistrarXml ==
    /\ \E k \in Chaves, c \in 1..NumCerts :
         /\ xmls_baixados' = registrar_xml(xmls_baixados, k, c)
         /\ chamada' = [SemChamada EXCEPT !.op = "registrar_xml", !.chave = k, !.cnpj = c]
    /\ UNCHANGED <<nsu, nf_status, notas_detalhadas, fora_do_db>>

DbSetNfStatus ==
    /\ \E k \in Chaves, l \in LinhasStatus :
         /\ nf_status' = set_nf_status(nf_status, k, l.cStat, l.xMotivo)
         /\ chamada' = [SemChamada EXCEPT !.op = "set_nf_status", !.chave = k]
    /\ UNCHANGED <<nsu, xmls_baixados, notas_detalhadas, fora_do_db>>

\* lines 88-89 and 114-115: the projection of a document and its upsert; the
\* projection may raise inside its try (float(vnf), get_nf_status)
DbSalvarNota ==
    /\ \E d \in DocsNFe, falha \in BOOLEAN :
         LET nota == IF falha THEN extrair_nota_detalhada_erro(d.chave)
                     ELSE extrair_nota_detalhada(d, d.chave)
         IN /\ notas_detalhadas' = salvar_nota_detalhada(notas_detalhadas, nota)
            /\ chamada' = [SemChamada EXCEPT !.op = "salvar_nota_detalhada",
                                               !.chave = d.chave,
                                               !.cnpj = IF falha THEN 1 ELSE 0,
                                               !.nota = <<nota>>,
                                               !.anterior = notas_detalhadas[d.chave]]
    /\ UNCHANGED <<nsu, xmls_baixados, nf_status, fora_do_db>>

\* the status ledger and the detail table: set_nf_status and the upsert
NextDB == DbSetNfStatus \/ DbSalvarNota
SpecDB == Init /\ [][NextDB]_vars

\* the download ledger and the status ledger: registrar_xml and set_nf_status
NextRegistro == DbRegistrarXml \/ DbSetNfStatus
SpecRegistro == Init /\ [][NextRegistro]_vars

\* ------------------------------------------------------------------
\* Atualizar.py: limpa and detectar_evento_cancelamento
\* ------------------------------------------------------------------
\* A text is a sequence of characters; a raw field value is a text or None
\* (findtext of a missing element).
Alfabeto == {" ", "n", "N", "o", "e", "u", "l"}
Textos == UNION {[1..n -> Alfabeto] : n \in 0..MaxTexto}
Campos == {SemCampo} \cup {[nulo |-> FALSE, txt |-> t] : t \in Textos}

\* str.strip()
strip(t) ==
    LET cheios == {i \in 1..Len(t) : t[i] # " "}
    IN IF cheios = {} THEN <<>>
       ELSE SubSeq(t, CHOOSE i \in cheios : \A j \in cheios : i <= j,
                      CHOOSE i \in cheios : \A j \in cheios : i >= j)

\* str.lower()
lower(t) == [i \in 1..Len(t) |-> IF t[i] = "N" THEN "n" ELSE t[i]]

TextosNulos == {<<"n", "o", "n", "e">>, <<"n", "u", "l", "l">>}

\* variant of limpa that compares without lower()
limpaSemLower(v) ==
    IF ~v.nulo /\ v.txt # <<>> /\ strip(v.txt) # <<>> /\ strip(v.txt) \notin TextosNulos
    THEN v.txt ELSE <<>>

\* extrair_info_nfe.limpa (line 65)
limpa(v) ==
    IF ~v.nulo /\ v.txt # <<>> /\ strip(v.txt) # <<>> /\ lower(strip(v.txt)) \notin TextosNulos
    THEN v.txt ELSE <<>>

\* A file is unreadable or holds its infEvento blocks in document order, each
\* with the text of tpEvento ("" when the element is missing) and of chNFe
\* and chCTe (0 when missing).
TiposEvento == {"110111", "110110", ""}
Blocos == [tpEvento : TiposEvento, chNFe : 0..MaxChave, chCTe : 0..MaxChave]
Documentos ==
    {SemDocumento} \cup
    {[legivel |-> TRUE, blocos |-> b] : b \in UNION {[1..n -> Blocos] : n \in 0..MaxBlocos}}

\* line 94: chNFe or chCTe
ChaveDoBloco(b) == IF b.chNFe # 0 THEN b.chNFe ELSE b.chCTe

\* variant of line 96 that takes every event for a cancellation
EhCancelamentoQualquer(tp) == tp # ""

\* line 96
EhCancelamento(tp) == tp = "110111"

\* detectar_evento_cancelamento: root.find returns the first infEvento
detectar_evento_cancelamento(doc) ==
    IF ~doc.legivel \/ doc.blocos = <<>> THEN Nada
    ELSE LET infEvento == doc.blocos[1]
         IN IF EhCancelamento(infEvento.tpEvento)
            THEN [chave |-> ChaveDoBloco(infEvento), status |-> "Cancelada"]
            ELSE Nada

InitAtualizar ==
    /\ CicloParado /\ BancoVazio /\ DbParado /\ MainParado /\ ValidadorParado /\ GuiParado
    /\ OutrosParados
    /\ limpo = <<>>
    /\ deteccao = Nada
    /\ \/ apc = "campo" /\ campo \in Campos /\ documento = SemDocumento
       \/ apc = "documento" /\ campo = SemCampo /\ documento \in Documentos

Limpar ==
    /\ apc = "campo"
    /\ apc' = "limpo"
    /\ limpo' = limpa(campo)
    /\ UNCHANGED <<campo, documento, deteccao, fora_do_atualizar>>

Detectar ==
    /\ apc = "documento"
    /\ apc' = "detectado"
    /\ deteccao' = detectar_evento_cancelamento(documento)
    /\ UNCHANGED <<campo, limpo, documento, fora_do_atualizar>>

NextAtualizar == Limpar \/ Detectar
SpecAtualizar == InitAtualizar /\ [][NextAtualizar]_vars

\* ------------------------------------------------------------------
\* main(): one distribution sweep and the status pass
\* ------------------------------------------------------------------
\* A response of the protocol query: retConsSitNFe with or without a
\* protNFe; in the layout of the NF-e schema chNFe, cStat and xMotivo are
\* children of protNFe/infProt, sobInfProt = FALSE is a protNFe that carries
\* them as direct children.
RespostasProt ==
    {[temProt |-> FALSE, sobInfProt |-> FALSE, chNFe |-> 0, cStat |-> "", xMotivo |-> ""]} \cup
    {[temProt |-> TRUE, sobInfProt |-> i, chNFe |-> k, cStat |-> l.cStat, xMotivo |-> l.xMotivo] :
        i \in BOOLEAN, k \in 0..MaxChave, l \in LinhasStatus}

\* XMLProcessor.parse_protNFe: findtext with the name of a direct child of
\* protNFe; a missing element gives '' (chNFe 0)
parse_protNFe(r) ==
    IF r.temProt /\ ~r.sobInfProt
    THEN [chNFe |-> r.chNFe, cStat |-> r.cStat, xMotivo |-> r.xMotivo]
    ELSE [chNFe |-> 0, cStat |-> "", xMotivo |-> ""]

\* DatabaseManager.find_cert_by_cnpj: 0 when there is no such certificate
find_cert_by_cnpj(cnpj) ==
    IF \E i \in 1..NumCerts : Certificados[i].cnpj = cnpj
    THEN CHOOSE i \in 1..NumCerts : Certificados[i].cnpj = cnpj ELSE 0

\* DatabaseManager.get_chaves_missing_status, as the set of its keys
get_chaves_missing_status == {k \in Chaves : xmls_baixados[k] # 0 /\ nf_status[k] = <<>>}

RECURSIVE EmOrdem(_)
EmOrdem(S) ==
    IF S = {} THEN <<>>
    ELSE LET k == CHOOSE x \in S : \A y \in S : x <= y IN <<k>> \o EmOrdem(S \ {k})

RECURSIVE RegistrarTodas(_, _, _)
RegistrarTodas(tab, S, cnpj) ==
    IF S = {} THEN tab
    ELSE LET k == CHOOSE x \in S : TRUE
         IN RegistrarTodas(registrar_xml(tab, k, cnpj), S \ {k}, cnpj)

\* the database main() opens: a ledger whose rows may belong to a certificate
\* that was removed since (cnpj NumCerts + 1), with or without a status
InitMain ==
    /\ CicloParado /\ DbParado /\ AtualizarParado /\ ValidadorParado /\ GuiParado
    /\ OutrosParados
    /\ nsu = [i \in Informantes |-> <<>>]
    /\ xmls_baixados \in [Chaves -> 0..(NumCerts + 1)]
    /\ nf_status \in [Chaves -> {<<>>} \cup {<<l>> : l \in LinhasStatus}]
    /\ \A k \in Chaves : nf_status[k] # <<>> => xmls_baixados[k] # 0
    /\ notas_detalhadas = [k \in Chaves |-> <<>>]
    /\ mpc = "m_cert"
    /\ mIdx = 1
    /\ faltam = <<>>
    /\ consulta = SemConsulta
    /\ mresp = SemResposta

MCert == Certificados[mIdx]

\* lines 745-747: fetch_by_cnpj returns None, continue
MainSemResposta ==
    /\ mpc = "m_cert" /\ mIdx <= NumCerts
    /\ mIdx' = mIdx + 1
    /\ mresp' = SemResposta
    /\ UNCHANGED <<mpc, faltam, consulta, v_banco, fora_do_main>>

\* lines 748-751: the response has cStat 656: a log line, the stored cursor
\* is kept whatever ultNSU the response carries
MainConsumoIndevido ==
    /\ mpc = "m_cert" /\ mIdx <= NumCerts
    /\ \E u \in NsuTexts, n \in 0..MaxDocs : mresp' = Resposta("656", u, n, "nenhum")
    /\ mIdx' = mIdx + 1
    /\ UNCHANGED <<mpc, faltam, consulta, v_banco, fora_do_main>>

\* lines 752-766: the cursor is stored, then the keys of the valid NF-e
\* documents of the response are registered
MainLote ==
    /\ mpc = "m_cert" /\ mIdx <= NumCerts
    /\ \E c \in Outros, u \in NsuTexts, S \in SUBSET Chaves :
         LET r == Resposta(c, u, Cardinality(S), "nenhum")
             ult == extract_last_nsu(r)
         IN /\ mresp' = r
            /\ nsu' = IF ult # <<>> THEN set_last_nsu(nsu, MCert.inf, ult) ELSE nsu
            /\ xmls_baixados' = RegistrarTodas(xmls_baixados, S, MCert.cnpj)
    /\ mIdx' = mIdx + 1
    /\ UNCHANGED <<mpc, faltam, consulta, nf_status, notas_detalhadas, fora_do_main>>

\* lines 752-755, extract_docs raising on an undecodable docZip: the cursor
\* was stored at line 754, nothing catches the exception, main() ends
MainLoteCorrompido ==
    /\ mpc = "m_cert" /\ mIdx <= NumCerts
    /\ \E u \in NsuTexts, n \in 1..MaxDocs, e \in ZipErros \ {"nenhum"} :
         LET r == Resposta("138", u, n, e)
             ult == extract_last_nsu(r)
         IN /\ mresp' = r
            /\ nsu' = IF ult # <<>> THEN set_last_nsu(nsu, MCert.inf, ult) ELSE nsu
    /\ mpc' = "m_abortado"
    /\ UNCHANGED <<mIdx, faltam, consulta, xmls_baixados, nf_status, notas_detalhadas,
                   fora_do_main>>

\* lines 743-745 raising (NFeService, a network error of the fetch): nothing
\* catches it, main() ends with the traceback
MainErro ==
    /\ mpc = "m_cert" /\ mIdx <= NumCerts
    /\ mpc' = "m_abortado"
    /\ mresp' = SemResposta
    /\ UNCHANGED <<mIdx, faltam, consulta, v_banco, fora_do_main>>

\* lines 768-771
MainFaltam ==
    /\ mpc = "m_cert" /\ mIdx > NumCerts
    /\ faltam' = EmOrdem(get_chaves_missing_status)
    /\ mpc' = IF get_chaves_missing_status = {} THEN "m_fim" ELSE "m_consulta"
    /\ UNCHANGED <<mIdx, mresp, consulta, v_banco, fora_do_main>>

ProximaChave ==
    /\ faltam' = Tail(faltam)
    /\ mpc' = IF Tail(faltam) = <<>> THEN "m_fim" ELSE "m_consulta"

\* lines 773-776: no certificate for the owner of the key
MainConsultaSemCertificado ==
    /\ mpc = "m_consulta"
    /\ find_cert_by_cnpj(xmls_baixados[Head(faltam)]) = 0
    /\ consulta' = [chave |-> Head(faltam), resultado |-> "sem_certificado"]
    /\ ProximaChave
    /\ UNCHANGED <<mIdx, mresp, v_banco, fora_do_main>>

\* lines 780-782: fetch_prot_nfe returns None
MainConsultaSemResposta ==
    /\ mpc = "m_consulta"
    /\ find_cert_by_cnpj(xmls_baixados[Head(faltam)]) # 0
    /\ consulta' = [chave |-> Head(faltam), resultado |-> "sem_resposta"]
    /\ ProximaChave
    /\ UNCHANGED <<mIdx, mresp, v_banco, fora_do_main>>

\* lines 780-785: fetch_prot_nfe returns a response, the status is stored
\* under the key that parse_protNFe read when it read one
MainConsultaResposta ==
    /\ mpc = "m_consulta"
    /\ find_cert_by_cnpj(xmls_baixados[Head(faltam)]) # 0
    /\ \E r \in RespostasProt :
         LET p == parse_protNFe(r)
         IN nf_status' = IF p.chNFe # 0
                         THEN set_nf_status(nf_status, p.chNFe, p.cStat, p.xMotivo)
                         ELSE nf_status
    /\ consulta' = [chave |-> Head(faltam), resultado |-> "resposta"]
    /\ ProximaChave
    /\ UNCHANGED <<mIdx, mresp, nsu, xmls_baixados, notas_detalhadas, fora_do_main>>

\* line 778 raising (NFeService): main() ends with the traceback
MainConsultaErro ==
    /\ mpc = "m_consulta"
    /\ find_cert_by_cnpj(xmls_baixados[Head(faltam)]) # 0
    /\ consulta' = [chave |-> Head(faltam), resultado |-> "erro"]
    /\ mpc' = "m_abortado"
    /\ UNCHANGED <<mIdx, mresp, faltam, v_banco, fora_do_main>>

NextMain ==
    \/ MainSemResposta
    \/ MainConsumoIndevido
    \/ MainLote
    \/ MainLoteCorrompido
    \/ MainErro
    \/ MainFaltam
    \/ MainConsultaSemCertificado
    \/ MainConsultaSemResposta
    \/ MainConsultaResposta
    \/ MainConsultaErro
SpecMain == InitMain /\ [][NextMain]_vars

\* ------------------------------------------------------------------
\* validar_xml_auto and the working directory
\* ------------------------------------------------------------------
Dirs == 1..MaxDirs

\* A call: the root of the document ("ilegivel" when it does not parse,
\* "evento" for the roots of line 313), the directory where find_xsd finds
\* the schema (0: not found), whether os.chdir to it succeeds, whether the
\* schema file loads and whether the document validates.
Entradas == [raiz : {"ilegivel", "evento", "nfe"}, xsd : 0..MaxDirs,
             chdirOk : BOOLEAN, xsdOk : BOOLEAN, valido : BOOLEAN]

\* variant of the finally clause that leaves the directory where it is
RestauraCwdNada(salvo, atual) == atual

\* lines 355-356: finally: os.chdir(cwd)
RestauraCwd(salvo, atual) == salvo

InitValidador ==
    /\ CicloParado /\ BancoVazio /\ DbParado /\ AtualizarParado /\ MainParado /\ GuiParado
    /\ OutrosParados
    /\ vpc = "pronto"
    /\ ventrada = SemEntrada
    /\ diretorio \in Dirs
    /\ cwd = 0
    /\ diretorio_antes = 0
    /\ vres = ""

\* line 285: a call starts
VChamar ==
    /\ vpc = "pronto"
    /\ ventrada' \in Entradas
    /\ diretorio_antes' = diretorio
    /\ vres' = ""
    /\ vpc' = "parse"
    /\ UNCHANGED <<diretorio, cwd, fora_do_validador>>

\* lines 304-315: the root is read; an unparseable document raises, an event
\* root returns True without validation
VParse ==
    /\ vpc = "parse"
    /\ vpc' = IF ventrada.raiz = "nfe" THEN "find_xsd" ELSE "retornou"
    /\ vres' = CASE ventrada.raiz = "ilegivel" -> "excecao"
                  [] ventrada.raiz = "evento" -> "True"
                  [] OTHER -> ""
    /\ UNCHANGED <<ventrada, diretorio, cwd, diretorio_antes, fora_do_validador>>

\* lines 333-339: the schema is searched; cwd = os.getcwd()
VFindXsd ==
    /\ vpc = "find_xsd"
    /\ IF ventrada.xsd = 0
       THEN vpc' = "retornou" /\ vres' = "excecao" /\ cwd' = cwd
       ELSE vpc' = "chdir" /\ vres' = "" /\ cwd' = diretorio
    /\ UNCHANGED <<ventrada, diretorio, diretorio_antes, fora_do_validador>>

\* line 341: os.chdir(xsd_dir), inside the try
VChdir ==
    /\ vpc = "chdir"
    /\ IF ventrada.chdirOk
       THEN diretorio' = ventrada.xsd /\ vpc' = "validar" /\ vres' = ""
       ELSE diretorio' = diretorio /\ vpc' = "finally" /\ vres' = "excecao"
    /\ UNCHANGED <<ventrada, cwd, diretorio_antes, fora_do_validador>>

\* lines 343-354: the schema is loaded and the document validated
VValidar ==
    /\ vpc = "validar"
    /\ vres' = IF ventrada.xsdOk /\ ventrada.valido THEN "True" ELSE "excecao"
    /\ vpc' = "finally"
    /\ UNCHANGED <<ventrada, diretorio, cwd, diretorio_antes, fora_do_validador>>

\* lines 355-357
VFinally ==
    /\ vpc = "finally"
    /\ diretorio' = RestauraCwd(cwd, diretorio)
    /\ vpc' = "retornou"
    /\ UNCHANGED <<ventrada, cwd, diretorio_antes, vres, fora_do_validador>>

\* the caller goes on and may call again
VRetornar ==
    /\ vpc = "retornou"
    /\ vpc' = "pronto"
    /\ UNCHANGED <<ventrada, diretorio, cwd, diretorio_antes, vres, fora_do_validador>>

NextValidador == VChamar \/ VParse \/ VFindXsd \/ VChdir \/ VValidar \/ VFinally \/ VRetornar
SpecValidador == InitValidador /\ [][NextValidador]_vars

\* ------------------------------------------------------------------
\* interface.py: buscar_normal and the processes it launches
\* ------------------------------------------------------------------
\* Each activation of "Executar Busca" starts a thread that launches
\* nfe_search.py (whose entry point runs ciclo_nsu) and reads its output.
\* A process polls the certificates in order; motivo says why its output
\* ended: a 656 response was logged, the sweep completed (line 119), or the
\* process died.

\* lines 658-689: nothing prevents a launch while another is running
Clicar(p) ==
    /\ procs[p].fase = "nao_lancado"
    /\ procs' = [procs EXCEPT ![p] = [@ EXCEPT !.fase = "rodando", !.cert = 1]]
    /\ status' = "executando"
    /\ UNCHANGED fora_do_gui

\* nfe_search.py line 58: the request for the certificate is sent
ProcRequisitar(p) ==
    /\ procs[p].fase = "rodando"
    /\ procs[p].cert <= NumCerts
    /\ procs' = [procs EXCEPT ![p] = [@ EXCEPT !.fase = "em_voo"]]
    /\ UNCHANGED <<status, fora_do_gui>>

\* the response arrives and is not throttled: the paging loop goes on or the
\* process moves to the next certificate; no line matches stop_predicate
ProcResposta(p) ==
    /\ procs[p].fase = "em_voo"
    /\ \E proximo \in {procs[p].cert, procs[p].cert + 1} :
         procs' = [procs EXCEPT ![p] = [@ EXCEPT !.fase = "rodando", !.cert = proximo]]
    /\ UNCHANGED <<status, fora_do_gui>>

\* lines 670-676, stop_predicate: a line with "consumo indevido" or with
\* "Dormindo por 60 minutos" stops the reading and sets consumo_detectado
TextoPara(motivo) == motivo \in {"consumo_indevido", "varredura_completa"}

\* lines 678-688: the message of the worker once the reading ended
Mensagem(consumo_detectado) == IF consumo_detectado THEN "aviso_consumo_indevido" ELSE "concluida"

Encerrar(p, motivo) ==
    /\ procs' = [procs EXCEPT ![p] = [@ EXCEPT !.fase = "fim",
                                              !.consumo_detectado = TextoPara(motivo),
                                              !.motivo = motivo]]
    /\ status' = Mensagem(TextoPara(motivo))
    /\ UNCHANGED fora_do_gui

\* the response has cStat 656: line 68 logs "Consumo indevido, ..."
ProcConsumoIndevido(p) ==
    /\ procs[p].fase = "em_voo"
    /\ Encerrar(p, "consumo_indevido")

\* every certificate was polled: line 119 logs "... Dormindo por 60 minutos..."
ProcFimVarredura(p) ==
    /\ procs[p].fase = "rodando"
    /\ procs[p].cert > NumCerts
    /\ Encerrar(p, "varredura_completa")

\* the process dies (import error, missing database, killed): its output
\* ends without a matching line; the return code is discarded (line 678)
ProcMorre(p) ==
    /\ procs[p].fase \in {"rodando", "em_voo"}
    /\ Encerrar(p, "falha")

NextGUI ==
    \E p \in 1..MaxProcs :
        \/ Clicar(p)
        \/ ProcRequisitar(p)
        \/ ProcResposta(p)
        \/ ProcConsumoIndevido(p)
        \/ ProcFimVarredura(p)
        \/ ProcMorre(p)
SpecGUI == Init /\ [][NextGUI]_vars

\* ------------------------------------------------------------------
\* The reconciliation pass of ciclo_nsu, file by file (lines 107-121)
\* ------------------------------------------------------------------
\* Files under xmls/: an NF-e, a file that read_text cannot read, an event
\* file without infNFe (chave 0: not a cancellation; chave k: a cancellation
\* event, tpEvento 110111, of the invoice k)
DocIlegivel == [tipo |-> "ilegivel", chave |-> 0, nNF |-> 0]
EventosCancelamento == {[tipo |-> "evento", chave |-> k, nNF |-> 0] : k \in Chaves}
ArquivosSemCancelamento == DocsNFe \cup {DocIlegivel, DocEvento}
Listas(S) == UNION {[1..n -> S] : n \in 0..MaxArqs}

\* extrair_chave_nfe: 0 stands for None (no infNFe element, or not XML)
extrair_chave_nfe(f) == IF f.tipo = "nfe" THEN f.chave ELSE 0

\* what one iteration of the for loop of line 109 can come to: read_text
\* raising (line 116), no key (line 113), the record projected and upserted,
\* the record of the except branch of extrair_nota_detalhada upserted, the
\* upsert raising (line 116)
ResultadosDe(f) ==
    IF f.tipo = "ilegivel" THEN {"ilegivel"}
    ELSE IF extrair_chave_nfe(f) = 0 THEN {"sem_chave"}
    ELSE {"ok", "vazio", "falha"}

\* variant of lines 116-117 where the exception ends the for loop
AposErroArquivoAborta == "r_dormir"

\* lines 116-117: the exception of one file is logged, the loop goes on
AposErroArquivo == "r_arquivos"

InitRec(arqs) ==
    /\ CicloParado /\ DbParado /\ AtualizarParado /\ MainParado /\ ValidadorParado /\ GuiParado
    /\ LoteParado /\ ErpParado
    /\ nsu = [i \in Informantes |-> <<>>]
    /\ xmls_baixados = [k \in Chaves |-> 0]
    /\ nf_status \in [Chaves -> {<<>>} \cup {<<l>> : l \in LinhasStatus}]
    /\ notas_detalhadas = [k \in Chaves |-> <<>>]
    /\ rpc = "r_inicio"
    /\ rarqs \in Listas(arqs)
    /\ ridx = 0
    /\ rfeitos = <<>>

InitReconciliar == InitRec(ArquivosSemCancelamento)

fora_do_rec == <<v_ciclo, nsu, xmls_baixados, nf_status, v_db, v_atualizar, v_main,
                 v_validador, v_gui, v_lote, v_erp>>

\* line 108: criar_tabela_detalhada, then the directory walk starts
RecCriarTabela ==
    /\ rpc = "r_inicio"
    /\ rpc' = "r_arquivos"
    /\ ridx' = 1
    /\ UNCHANGED <<rarqs, rfeitos, notas_detalhadas, fora_do_rec>>

\* line 108 or the directory walk of line 109 raising: caught at line 123
RecErro ==
    /\ rpc \in {"r_inicio", "r_arquivos"}
    /\ rpc' = "r_geral"
    /\ UNCHANGED <<rarqs, ridx, rfeitos, notas_detalhadas, fora_do_rec>>

\* lines 110-117: one file
RecArquivo ==
    /\ rpc = "r_arquivos"
    /\ ridx <= Len(rarqs)
    /\ LET f == rarqs[ridx]
           chave == extrair_chave_nfe(f)
       IN \E r \in ResultadosDe(f) :
            /\ notas_detalhadas' =
                 CASE r = "ok" ->
                        salvar_nota_detalhada(notas_detalhadas, extrair_nota_detalhada(f, chave))
                   [] r = "vazio" ->
                        salvar_nota_detalhada(notas_detalhadas, extrair_nota_detalhada_erro(chave))
                   [] OTHER -> notas_detalhadas
            /\ rfeitos' = Append(rfeitos, r)
            /\ rpc' = IF r \in {"ilegivel", "falha"} THEN AposErroArquivo ELSE "r_arquivos"
    /\ ridx' = ridx + 1
    /\ UNCHANGED <<rarqs, fora_do_rec>>

\* line 119: the walk is exhausted
RecFim ==
    /\ rpc = "r_arquivos"
    /\ ridx > Len(rarqs)
    /\ rpc' = "r_dormir"
    /\ UNCHANGED <<rarqs, ridx, rfeitos, notas_detalhadas, fora_do_rec>>

NextReconciliar == RecCriarTabela \/ RecErro \/ RecArquivo \/ RecFim
SpecReconciliar == InitReconciliar /\ [][NextReconciliar]_vars

\* ------------------------------------------------------------------
\* The reconciliation pass and atualizar_notas_detalhadas (Atualizar.py) on
\* the same database and the same xmls directory
\* ------------------------------------------------------------------
Cancelada == <<"Cancelada">>

\* the file as detectar_evento_cancelamento reads it: an NF-e has no
\* infEvento, an event file has one block
ComoDocumento(f) ==
    CASE f.tipo = "ilegivel" -> SemDocumento
      [] f.tipo = "nfe" -> [legivel |-> TRUE, blocos |-> <<>>]
      [] OTHER -> [legivel |-> TRUE,
                   blocos |-> <<[tpEvento |-> IF f.chave = 0 THEN "110110" ELSE "110111",
                                 chNFe |-> f.chave, chCTe |-> 0]>>]

\* extrair_info_nfe: None for a file it cannot read, an empty key for a
\* file without infNFe, status '' (lines 66-82)
extrair_info_nfe(f) ==
    IF f.tipo = "nfe" THEN <<[chave |-> f.chave, numero |-> f.nNF, status |-> <<>>]>> ELSE <<>>

\* Atualizar.py lines 121-145: every file with a key is upserted
RECURSIVE AtualizarNotas(_, _)
AtualizarNotas(tab, fs) ==
    IF fs = <<>> THEN tab
    ELSE LET nota == extrair_info_nfe(Head(fs))
         IN AtualizarNotas(IF nota # <<>> THEN salvar_nota_detalhada(tab, nota[1]) ELSE tab,
                           Tail(fs))

\* Atualizar.py lines 148-159: UPDATE ... SET status WHERE chave for every
\* detected cancellation event
RECURSIVE MarcarCanceladas(_, _)
MarcarCanceladas(tab, fs) ==
    IF fs = <<>> THEN tab
    ELSE LET d == detectar_evento_cancelamento(ComoDocumento(Head(fs)))
         IN MarcarCanceladas(
                IF d.chave # 0 /\ d.status # "" /\ tab[d.chave] # <<>>
                THEN [tab EXCEPT ![d.chave] = <<[@[1] EXCEPT !.status = <<d.status>>]>>]
                ELSE tab,
                Tail(fs))

InitCancelamento == InitRec(ArquivosSemCancelamento \cup EventosCancelamento)

\* atualizar_notas_detalhadas, run by the operator at any time
AtualizarNotasDetalhadas ==
    /\ notas_detalhadas' = MarcarCanceladas(AtualizarNotas(notas_detalhadas, rarqs), rarqs)
    /\ UNCHANGED <<v_rec, fora_do_rec>>

\* lines 121 / 126 and 48: the sleep ends, the next cycle's sweep finds
\* nothing new and the pass starts again
RecProximoCiclo ==
    /\ rpc \in {"r_dormir", "r_geral"}
    /\ rpc' = "r_inicio"
    /\ ridx' = 0
    /\ rfeitos' = <<>>
    /\ UNCHANGED <<rarqs, notas_detalhadas, fora_do_rec>>

NextCancelamento == NextReconciliar \/ RecProximoCiclo \/ AtualizarNotasDetalhadas
SpecCancelamento == InitCancelamento /\ [][NextCancelamento]_vars

\* the files whose record was upserted by this pass, and the record that
\* the last of them with the key of file i left in the table
Reconciliados == {i \in 1..Len(rfeitos) : rfeitos[i] \in {"ok", "vazio"}}
UltimoDe(i) ==
    CHOOSE j \in Reconciliados :
        /\ rarqs[j].chave = rarqs[i].chave
        /\ \A l \in Reconciliados : rarqs[l].chave = rarqs[i].chave => l <= j
RegistroDe(j) ==
    IF rfeitos[j] = "ok" THEN extrair_nota_detalhada(rarqs[j], rarqs[j].chave)
    ELSE extrair_nota_detalhada_erro(rarqs[j].chave)

\* ------------------------------------------------------------------
\* One distribution response processed twice (lines 75-91)
\* ------------------------------------------------------------------
\* the certificate of the paging loop (the loop treats cnpj as opaque text;
\* the owners already in the ledger range over every certificate)
CertDoLote == Certificados[1]

LinhaAutorizada == [cStat |-> "100", xMotivo |-> "Autorizado"]

\* the decoded documents of a response that has some (line 72)
Lotes == UNION {[1..n -> Docs] : n \in 1..MaxDocs}

InitLote ==
    /\ CicloParado /\ DbParado /\ AtualizarParado /\ MainParado /\ ValidadorParado /\ GuiParado
    /\ RecParado /\ ErpParado
    /\ nsu = [i \in Informantes |-> <<>>]
    /\ xmls_baixados \in [Chaves -> 0..NumCerts]
    /\ nf_status \in [Chaves -> {<<>>, <<LinhaAutorizada>>}]
    /\ notas_detalhadas = [k \in Chaves |-> <<>>]
    /\ lpc = "l_docs"
    /\ ldocs \in Lotes
    /\ lidx = 1
    /\ lvez = 1
    /\ lsnap = SemSnap

ciclo_sem_arquivos == <<pc, certIdx, ult_nsu, resp, docIdx, xml, gravou, dormiu, handler,
                        loteFalhou, vistos>>
fora_do_lote == <<ciclo_sem_arquivos, nsu, nf_status, v_db, v_atualizar, v_main,
                  v_validador, v_gui, v_rec, v_erp>>

\* lines 77-89 for a valid NF-e: the key registered, the file, the record
LoteDocNFe ==
    /\ lpc = "l_docs"
    /\ lidx <= Len(ldocs)
    /\ ldocs[lidx].tipo = "nfe"
    /\ LET d == ldocs[lidx]
       IN /\ xmls_baixados' = registrar_xml(xmls_baixados, d.chave, CertDoLote.cnpj)
          /\ \E discoOk \in BOOLEAN :
               arquivos' = IF discoOk
                           THEN salvar_xml_por_certificado(arquivos, d, CertDoLote.cnpj)
                           ELSE arquivos
          /\ notas_detalhadas' =
               salvar_nota_detalhada(notas_detalhadas, extrair_nota_detalhada(d, d.chave))
    /\ lidx' = lidx + 1
    /\ UNCHANGED <<lpc, ldocs, lvez, lsnap, fora_do_lote>>

\* lines 77-81 and 90-91: the document fails validation (exception logged)
\* or has no infNFe (continue)
LoteDocPulado ==
    /\ lpc = "l_docs"
    /\ lidx <= Len(ldocs)
    /\ ldocs[lidx].tipo # "nfe"
    /\ lidx' = lidx + 1
    /\ UNCHANGED <<lpc, ldocs, lvez, lsnap, xmls_baixados, notas_detalhadas, arquivos,
                   fora_do_lote>>

\* lines 92-97 and 58: the cursor is not advanced (ultNSU absent, or the
\* process restarted before line 94) and the same response is fetched again
LoteOutraVez ==
    /\ lpc = "l_docs"
    /\ lidx > Len(ldocs)
    /\ lvez = 1
    /\ lsnap' = [xmls |-> xmls_baixados, notas |-> notas_detalhadas]
    /\ lvez' = 2
    /\ lidx' = 1
    /\ UNCHANGED <<lpc, ldocs, xmls_baixados, notas_detalhadas, arquivos, fora_do_lote>>

\* the second processing is over
LoteFim ==
    /\ lpc = "l_docs"
    /\ lidx > Len(ldocs)
    /\ lvez = 2
    /\ lpc' = "l_fim"
    /\ UNCHANGED <<ldocs, lidx, lvez, lsnap, xmls_baixados, notas_detalhadas, arquivos,
                   fora_do_lote>>

NextLote == LoteDocNFe \/ LoteDocPulado \/ LoteOutraVez \/ LoteFim
SpecLote == InitLote /\ [][NextLote]_vars

\* ------------------------------------------------------------------
\* The ledger: the triggers of init_db.py under the statements of app_erp.py.
\* Money is counted in whole units; a payment row carries its
\* amount + interest - discount as `total`; a date is its month.

\* lines 284-288: the period of the date is marked CLOSED
Fechado(m) == m \in periods

\* EfeitoNoSaldo without the kind of the transaction: the money always enters
EfeitoNoSaldoSempreEntra(tipo, v) == v

\* lines 399-401: the money enters for RECEBER and leaves for PAGAR
EfeitoNoSaldo(tipo, v) == IF tipo = "RECEBER" THEN v ELSE -v

RECURSIVE Soma(_, _)
Soma(f, S) ==
    IF S = {} THEN 0
    ELSE LET x == CHOOSE y \in S : TRUE IN f[x] + Soma(f, S \ {x})

BaixasDe(pays, t) == {p \in PagIds : pays[p] # <<>> /\ pays[p][1].transaction_id = t}

\* lines 410-412: SUM over the payments of the transaction
Pago(pays, t) == Soma([p \in PagIds |-> IF p \in BaixasDe(pays, t) THEN pays[p][1].total ELSE 0], PagIds)

\* lines 408-415: LIQUIDADO when the sum reaches valor; the SUM of no rows is
\* NULL, the comparison is NULL and the CASE takes its ELSE
StatusCalculado(pays, t, valor) ==
    IF BaixasDe(pays, t) # {} /\ Pago(pays, t) >= valor THEN "LIQUIDADO" ELSE "EM_ABERTO"

\* lines 407-417: UPDATE transactions SET status = CASE ... WHERE id = t
AtualizaStatus(trs, pays, t) ==
    IF trs[t] = <<>> THEN trs
    ELSE [trs EXCEPT ![t] = <<[trs[t][1] EXCEPT !.status = StatusCalculado(pays, t, trs[t][1].valor)]>>]

\* lines 294-318 fired by that UPDATE: the data_lanc of the transaction is in
\* a closed period
BloqueadoUpd(trs, t) == trs[t] # <<>> /\ Fechado(trs[t][1].mes)

\* RAISE(ABORT) or a failed constraint: the statement changes nothing
Rejeita(f) ==
    /\ stmt' = [rejeitado |-> TRUE, fechado |-> f]
    /\ UNCHANGED <<bank_accounts, transactions, payments, periods, sqlite_sequence>>

Aceita == stmt' = SemStmt

InitERP == CicloParado /\ BancoVazio /\ ForaParado

fora_do_erp == <<v_ciclo, v_banco, v_db, v_atualizar, v_main, v_validador, v_gui, v_rec, v_lote>>

\* transaction_save without tx_id: INSERT INTO transactions under
\* trg_trans_before_ins_period
TransactionInsert(tipo, v, m) ==
    /\ sqlite_sequence.transactions < MaxTx
    /\ IF Fechado(m)
       THEN Rejeita(TRUE)
       ELSE LET t == sqlite_sequence.transactions + 1 IN
            /\ transactions' = [transactions EXCEPT ![t] =
                   <<[tipo |-> tipo, valor |-> v, status |-> "EM_ABERTO", mes |-> m]>>]
            /\ sqlite_sequence' = [sqlite_sequence EXCEPT !.transactions = t]
            /\ Aceita
            /\ UNCHANGED <<bank_accounts, payments, periods>>
    /\ UNCHANGED fora_do_erp

\* transaction_save with tx_id: UPDATE transactions under
\* trg_trans_before_upd_period; the status column is not in the SET list,
\* and the edit taken here moves data_lanc and keeps tipo and valor
TransactionUpdate(t, m) ==
    /\ transactions[t] # <<>>
    /\ IF Fechado(transactions[t][1].mes) \/ Fechado(m)
       THEN Rejeita(TRUE)
       ELSE /\ transactions' = [transactions EXCEPT ![t] =
                   <<[transactions[t][1] EXCEPT !.mes = m]>>]
            /\ Aceita
            /\ UNCHANGED <<bank_accounts, payments, periods, sqlite_sequence>>
    /\ UNCHANGED fora_do_erp

\* transaction_delete: trg_trans_before_del_period, then the row goes and
\* ON DELETE CASCADE deletes its payments one by one, each under
\* trg_pay_before_del_period and trg_pay_after_del_bank_status; the subquery
\* of line 481 finds no transaction, the new current_balance is NULL and the
\* NOT NULL constraint of line 107 fails
TransactionDelete(t) ==
    /\ transactions[t] # <<>>
    /\ IF Fechado(transactions[t][1].mes)
       THEN Rejeita(TRUE)
       ELSE IF BaixasDe(payments, t) # {}
       THEN Rejeita(FALSE)
       ELSE /\ transactions' = [transactions EXCEPT ![t] = <<>>]
            /\ Aceita
            /\ UNCHANGED <<bank_accounts, payments, periods, sqlite_sequence>>
    /\ UNCHANGED fora_do_erp

\* cancel_selected: UPDATE transactions SET status='CANCELADO'
CancelSelected(t) ==
    /\ transactions[t] # <<>>
    /\ IF BloqueadoUpd(transactions, t)
       THEN Rejeita(TRUE)
       ELSE /\ transactions' = [transactions EXCEPT ![t] =
                   <<[transactions[t][1] EXCEPT !.status = "CANCELADO"]>>]
            /\ Aceita
            /\ UNCHANGED <<bank_accounts, payments, periods, sqlite_sequence>>
    /\ UNCHANGED fora_do_erp

\* liquidar: the PaymentDialog calls payment_add (INSERT INTO payments under
\* trg_pay_before_ins_period and trg_pay_after_ins_bank_status, whose UPDATE
\* of the transaction fires trg_trans_before_upd_period); an IntegrityError
\* is shown and nothing else happens; otherwise lines 2692-2697 set
\* LIQUIDADO when the sum reaches valor and the status read before the
\* dialog was not CANCELADO
Liquidar(t, b, v, m) ==
    /\ transactions[t] # <<>>
    /\ sqlite_sequence.payments < MaxPag
    /\ IF Fechado(m)
       THEN Rejeita(TRUE)
       ELSE IF BloqueadoUpd(transactions, t)
       THEN Rejeita(FALSE)
       ELSE LET p == sqlite_sequence.payments + 1
                tx == transactions[t][1]
                pays == [payments EXCEPT ![p] =
                            <<[transaction_id |-> t, bank_id |-> b, total |-> v, mes |-> m]>>]
                trs == AtualizaStatus(transactions, pays, t)
            IN  /\ payments' = pays
                /\ sqlite_sequence' = [sqlite_sequence EXCEPT !.payments = p]
                /\ bank_accounts' = [bank_accounts EXCEPT ![b] = @ + EfeitoNoSaldo(tx.tipo, v)]
                /\ transactions' =
                       IF Pago(pays, t) >= tx.valor /\ tx.status # "CANCELADO"
                       THEN [trs EXCEPT ![t] = <<[trs[t][1] EXCEPT !.status = "LIQUIDADO"]>>]
                       ELSE trs
                /\ Aceita
                /\ UNCHANGED periods
    /\ UNCHANGED fora_do_erp

\* UPDATE payments under trg_pay_before_upd_period and
\* trg_pay_after_upd_bank_status
PaymentUpdate(p, t2, b2, v2, m2) ==
    /\ payments[p] # <<>>
    /\ transactions[t2] # <<>>
    /\ LET old == payments[p][1]
           t1 == old.transaction_id
       IN IF Fechado(old.mes) \/ Fechado(m2)
          THEN Rejeita(TRUE)
          ELSE IF BloqueadoUpd(transactions, t1) \/ BloqueadoUpd(transactions, t2)
          THEN Rejeita(FALSE)
          ELSE LET pays == [payments EXCEPT ![p] =
                               <<[transaction_id |-> t2, bank_id |-> b2, total |-> v2, mes |-> m2]>>]
                   s1 == [bank_accounts EXCEPT ![old.bank_id] =
                               @ - EfeitoNoSaldo(transactions[t1][1].tipo, old.total)]
               IN  /\ payments' = pays
                   /\ bank_accounts' = [s1 EXCEPT ![b2] = @ + EfeitoNoSaldo(transactions[t2][1].tipo, v2)]
                   /\ transactions' = AtualizaStatus(AtualizaStatus(transactions, pays, t1), pays, t2)
                   /\ Aceita
                   /\ UNCHANGED <<periods, sqlite_sequence>>
    /\ UNCHANGED fora_do_erp

\* payment_delete: DELETE FROM payments under trg_pay_before_del_period and
\* trg_pay_after_del_bank_status
PaymentDelete(p) ==
    /\ payments[p] # <<>>
    /\ LET old == payments[p][1]
           t == old.transaction_id
       IN IF Fechado(old.mes)
          THEN Rejeita(TRUE)
          ELSE IF BloqueadoUpd(transactions, t)
          THEN Rejeita(FALSE)
          ELSE LET pays == [payments EXCEPT ![p] = <<>>] IN
               /\ payments' = pays
               /\ bank_accounts' = [bank_accounts EXCEPT ![old.bank_id] =
                                       @ - EfeitoNoSaldo(transactions[t][1].tipo, old.total)]
               /\ transactions' = AtualizaStatus(transactions, pays, t)
               /\ Aceita
               /\ UNCHANGED <<periods, sqlite_sequence>>
    /\ UNCHANGED fora_do_erp

\* a row of periods with status CLOSED for the month
FecharPeriodo(m) ==
    /\ ~Fechado(m)
    /\ periods' = periods \cup {m}
    /\ Aceita
    /\ UNCHANGED <<bank_accounts, transactions, payments, sqlite_sequence>>
    /\ UNCHANGED fora_do_erp

Tipos == {"PAGAR", "RECEBER"}

NextERP ==
    \/ \E tipo \in Tipos, v \in ValoresTitulo, m \in Meses : TransactionInsert(tipo, v, m)
    \/ \E t \in TxIds, m \in Meses : TransactionUpdate(t, m)
    \/ \E t \in TxIds : TransactionDelete(t)
    \/ \E t \in TxIds : CancelSelected(t)
    \/ \E t \in TxIds, b \in Bancos, v \in Valores, m \in Meses : Liquidar(t, b, v, m)
    \/ \E p \in PagIds, t \in TxIds, b \in Bancos, v \in Valores, m \in Meses : PaymentUpdate(p, t, b, v, m)
    \/ \E p \in PagIds : PaymentDelete(p)
    \/ \E m \in Meses : FecharPeriodo(m)

SpecERP == InitERP /\ [][NextERP]_vars

\* ------------------------------------------------------------------
\* Properties
\* ------------------------------------------------------------------
\* the for loop over the certificates only moves forward within a cycle
IndiceSoAvanca == pc # "inicio" => certIdx' >= certIdx

\* C1: the stored cursor is never advanced past a batch in which a document
\* failed validation or failed to be persisted.
C1_NuncaAvancaAlemDeLoteComFalha ==
    [][(gravou' # <<>> /\ pc = "avancar") => ~loteFalhou]_vars

\* C2: every stored cursor is a 15-digit string and no write replaces a
\* stored cursor by a smaller value.
C2_CursorNaoDecresce ==
    [][\A i \in Informantes :
          /\ nsu'[i] # <<>> => Len(nsu'[i]) = NsuWidth
          /\ nsu[i] # <<>> => NsuLeq(nsu[i], nsu'[i])]_vars

\* C3: when the paging loop of a certificate ends after a sequence of
\* non-throttled responses with strictly increasing ultNSU values, the stored
\* cursor equals the ultNSU of the last response.
C3_CursorFinalIgualUltimoUltNSU ==
    [][(/\ pc \in {"fetch", "avancar"}
        /\ pc' = "cert"
        /\ handler' = "nenhum"
        /\ resp'.cStat \in Outros
        /\ NovoVisto(resp') = "crescente")
       => nsu'[Cert.inf] = extract_last_nsu(resp')]_vars

\* C4: a response with cStat 656 makes the orchestrator write the cursor if
\* and only if the response carries an ultNSU different from the
\* certificate's cursor, process no document, and leave the certificate for
\* the rest of the cycle.
C4_ConsumoIndevido ==
    [][/\ (pc = "fetch" /\ resp'.cStat = "656" /\ handler' = "nenhum") =>
            LET ult == extract_last_nsu(resp')
                muda == ult # <<>> /\ ult # get_last_nsu(Cert.inf)
            IN /\ gravou' # <<>> <=> muda
               /\ muda => /\ gravou' = <<[inf |-> Cert.inf, valor |-> ult]>>
                          /\ nsu' = [nsu EXCEPT ![Cert.inf] = ult]
               /\ ~muda => nsu' = nsu
               /\ UNCHANGED <<xmls_baixados, notas_detalhadas, arquivos>>
               /\ pc' = "cert"
               /\ certIdx' = certIdx + 1
       /\ IndiceSoAvanca]_vars

C4_Witness ==
    /\ pc = "cert"
    /\ certIdx = 2
    /\ handler = "nenhum"
    /\ resp.cStat = "656"
    /\ resp.nDocs > 0
    /\ extract_last_nsu(resp) = nsu[Certificados[1].inf]
    /\ gravou = <<>>

\* C5: after a network error of the fetch the orchestrator waits 180 seconds
\* and fetches again for the same certificate with the same cursor, with no
\* cursor write and no other certificate in between, however often it fails.
C5_ErroDeRede ==
    [][/\ handler' = "rede" =>
            /\ pc' = "espera_rede"
            /\ gravou' = <<>>
            /\ UNCHANGED <<certIdx, ult_nsu, nsu>>
       /\ pc = "espera_rede" =>
            /\ pc' = "fetch"
            /\ dormiu' = 180
            /\ gravou' = <<>>
            /\ UNCHANGED <<certIdx, ult_nsu, nsu>>]_vars

C5_Witness ==
    /\ pc = "fetch"
    /\ dormiu = 180
    /\ certIdx < NumCerts
    /\ ult_nsu # NsuInicial
    /\ ult_nsu = nsu[Cert.inf]

\* C6: after a SOAP fault of the distribution call the orchestrator waits 180
\* seconds and retries for the same certificate.
C6_FaultEsperaERepete ==
    [][handler' = "fetch_fault" => (pc' = "espera_rede" /\ certIdx' = certIdx)]_vars

\* C7: an exception of one document of a batch is caught and only that
\* document is skipped: the loop goes on to the next document, a valid NF-e
\* that raises nothing gets its detailed record and no other document does.
C7_DocumentoComErroEPulado ==
    [][pc = "docs" =>
         /\ handler' \in {"nenhum", "doc"}
         /\ docIdx' = docIdx + 1
         /\ certIdx' = certIdx
         /\ pc' = IF docIdx < resp.nDocs THEN "docs" ELSE "avancar"
         /\ xml.tipo = "invalido" => handler' = "doc"
         /\ (xml.tipo = "nfe" /\ handler' = "nenhum") =>
               notas_detalhadas' = [notas_detalhadas EXCEPT ![xml.chave] =
                                       <<extrair_nota_detalhada(xml, xml.chave)>>]
         /\ (xml.tipo # "nfe" \/ handler' = "doc") =>
               notas_detalhadas' = notas_detalhadas]_vars

C7_Witness ==
    /\ pc = "avancar"
    /\ resp.nDocs = 2
    /\ loteFalhou
    /\ handler = "nenhum"
    /\ \E k \in Chaves : notas_detalhadas[k] # <<>>

\* C8: a response with a corrupt docZip entry still has its other documents
\* processed in the same pass.
C8_DocZipCorrompidoEPulado ==
    [][(pc = "fetch" /\ resp'.zipErro # "nenhum" /\ resp'.nDocs > 1) => pc' = "docs"]_vars

\* C9: after a batch whose response has no ultNSU or the ultNSU of the
\* current cursor the paging loop ends: the for loop moves to the next
\* certificate and does not come back in the cycle.
C9_LacoTermina ==
    [][/\ (/\ pc = "avancar"
           /\ \/ extract_last_nsu(resp') = <<>>
              \/ extract_last_nsu(resp') = ult_nsu) =>
            /\ pc' = "cert"
            /\ certIdx' = certIdx + 1
            /\ gravou' = <<>>
            /\ nsu' = nsu
       /\ IndiceSoAvanca]_vars

C9_Witness ==
    /\ pc = "cert"
    /\ handler = "nenhum"
    /\ resp.cStat \in Outros
    /\ resp.nDocs > 0
    /\ resp.zipErro = "nenhum"
    /\ extract_last_nsu(resp) = <<>>

C11_RegistroIdempotente ==
    [][/\ \A k \in Chaves : xmls_baixados[k] # 0 => xmls_baixados'[k] = xmls_baixados[k]
       /\ chamada'.op = "registrar_xml" =>
            /\ xmls_baixados'[chamada'.chave] # 0
            /\ xmls_baixados[chamada'.chave] = 0 =>
                  xmls_baixados' = [xmls_baixados EXCEPT ![chamada'.chave] = chamada'.cnpj]
            /\ xmls_baixados[chamada'.chave] # 0 => xmls_baixados' = xmls_baixados
            /\ registrar_xml(xmls_baixados', chamada'.chave, chamada'.cnpj) = xmls_baixados'
            /\ UNCHANGED <<nf_status, notas_detalhadas, nsu>>]_vars

C11_Witness ==
    /\ chamada.op = "registrar_xml"
    /\ xmls_baixados[chamada.chave] # 0
    /\ xmls_baixados[chamada.chave] # chamada.cnpj
    /\ \E k \in Chaves : xmls_baixados[k] = 0

\* C12: after salvar_nota_detalhada the table holds one row for the key, with
\* every field of the record just given, and the rows of the other keys are
\* untouched.
C12_UpsertPorChave ==
    [][chamada'.op = "salvar_nota_detalhada" =>
         /\ notas_detalhadas'[chamada'.chave] = chamada'.nota
         /\ \A k \in Chaves \ {chamada'.chave} : notas_detalhadas'[k] = notas_detalhadas[k]]_vars

C12_Witness ==
    /\ chamada.op = "salvar_nota_detalhada"
    /\ chamada.anterior # <<>>
    /\ chamada.anterior[1].numero # chamada.nota[1].numero
    /\ chamada.anterior[1].status # chamada.nota[1].status
    /\ notas_detalhadas[chamada.chave] = chamada.nota

\* C13: the projected status is "{code} - {reason}" built from nf_status
\* whenever nf_status holds a row for the key, and the default text only when
\* it holds none.
C13_StatusVemDaLedger ==
    [][chamada'.op = "salvar_nota_detalhada" =>
         LET st == nf_status[chamada'.chave]
         IN chamada'.nota[1].status =
              IF st # <<>> THEN <<st[1].cStat, " - ", st[1].xMotivo>> ELSE StatusPadrao]_vars

\* C14 as stated: the result is (key, "Cancelada") for a document containing
\* an infEvento block whose tpEvento is exactly "110111", and null for every
\* other document.
C14_CancelamentoEmQualquerBloco ==
    apc = "detectado" =>
      LET cancelamentos == {i \in 1..Len(documento.blocos) :
                               documento.blocos[i].tpEvento = "110111"}
      IN IF cancelamentos # {}
         THEN /\ deteccao.status = "Cancelada"
              /\ \E i \in cancelamentos : deteccao.chave = ChaveDoBloco(documento.blocos[i])
         ELSE deteccao = Nada

\* C14 amended: the result is (key, "Cancelada"), with the chNFe or else the
\* chCTe of the block as key, when the first infEvento block of the document
\* has tpEvento exactly "110111"; it is null when the first block has another
\* code or none, when there is no infEvento block and when the file is
\* unreadable.
C14_CancelamentoNoPrimeiroBloco ==
    apc = "detectado" =>
      IF documento.legivel /\ documento.blocos # <<>> /\ documento.blocos[1].tpEvento = "110111"
      THEN deteccao = [chave |-> ChaveDoBloco(documento.blocos[1]), status |-> "Cancelada"]
      ELSE deteccao = Nada

C14_Witness ==
    /\ apc = "detectado"
    /\ Len(documento.blocos) = 2
    /\ documento.blocos[1].tpEvento = "110110"
    /\ documento.blocos[2].tpEvento = "110111"
    /\ deteccao = Nada

\* C15 as stated: limpa maps a value that is empty, whitespace-only or equal
\* to "none"/"null" in any letter case to the empty text, returns every other
\* value unchanged, and is idempotent.
C15_LimpaIgualdadeExata ==
    apc = "limpo" =>
      /\ limpo = IF campo.nulo \/ strip(campo.txt) = <<>> \/ lower(campo.txt) \in TextosNulos
                 THEN <<>> ELSE campo.txt
      /\ limpa([nulo |-> FALSE, txt |-> limpo]) = limpo

\* C15 amended: limpa maps a value that is missing, empty, whitespace-only or
\* that equals "none"/"null" in any letter case once its leading and trailing
\* whitespace is removed to the empty text, returns every other value
\* unchanged, and is idempotent.
C15_LimpaAposStrip ==
    apc = "limpo" =>
      /\ limpo = IF campo.nulo \/ strip(campo.txt) = <<>>
                    \/ lower(strip(campo.txt)) \in TextosNulos
                 THEN <<>> ELSE campo.txt
      /\ limpa([nulo |-> FALSE, txt |-> limpo]) = limpo

C15_Witness ==
    /\ apc = "limpo"
    /\ campo.txt = <<" ", "N", "o", "n", "e">>
    /\ limpo = <<>>

\* C16: the script that the search actions launch makes at most one fetch
\* for each certificate, then one status pass, and ends without sleeping or
\* starting another sweep.
C16_UmaVarreduraESai ==
    [][/\ pc \in {"avancar", "espera_rede"} => pc' # "fetch"
       /\ dormiu' = 0
       /\ pc' = "inicio" => pc = "inicio"]_vars

\* C17: in the status pass a key without status whose certificate exists and
\* for which fetch_prot_nfe returned a response gets a status row under that
\* key, and the row of a key that had a status is left unchanged.
C17_StatusGravadoNaMesmaChave ==
    [][mpc = "m_consulta" =>
         /\ consulta'.resultado = "resposta" => nf_status'[consulta'.chave] # <<>>
         /\ \A k \in Chaves : nf_status[k] # <<>> => nf_status'[k] = nf_status[k]]_vars

\* C18: every call of validar_xml_auto returns or raises with the working
\* directory of the process equal to what it was when the call started.
C18_DiretorioRestaurado ==
    vpc \in {"retornou", "pronto"} => (diretorio_antes = 0 \/ diretorio = diretorio_antes)

C18_Witness ==
    /\ vpc = "retornou"
    /\ vres = "excecao"
    /\ ventrada.raiz = "nfe"
    /\ ventrada.chdirOk
    /\ ventrada.xsd # diretorio_antes
    /\ ventrada.xsd # 0

\* C19: at any time at most one distribution request is in flight, also
\* when the ingestion is launched by the search actions of the browser.
C19_UmaRequisicaoPorVez ==
    Cardinality({p \in 1..MaxProcs : procs[p].fase = "em_voo"}) <= 1

\* C20: when a launch of buscar_normal ends, the throttling advisory is
\* shown exactly when the process reported throttling, the completion status
\* after a completed sweep and the generic error after a failure.
C20_AvisoSoComConsumoIndevido ==
    [][\A p \in 1..MaxProcs :
         (procs[p].fase # "fim" /\ procs'[p].fase = "fim") =>
            status' = CASE procs'[p].motivo = "consumo_indevido" -> "aviso_consumo_indevido"
                        [] procs'[p].motivo = "varredura_completa" -> "concluida"
                        [] OTHER -> "erro"]_vars

\* C21 as stated: every document of a non-throttled response that passes
\* schema validation gets its key registered, its XML written to disk and
\* its detailed record upserted, and the cursor is written only after every
\* document of the response has been attempted.
C21_TodoDocumentoValidoPersistido ==
    [][/\ (pc = "docs" /\ xml.tipo # "invalido") =>
            /\ xml.tipo = "nfe"
            /\ xmls_baixados'[xml.chave] # 0
            /\ arquivos'[CaminhoXml(xml, Cert.cnpj)] = <<xml>>
            /\ notas_detalhadas'[xml.chave] = <<extrair_nota_detalhada(xml, xml.chave)>>
       /\ (gravou' # <<>> /\ resp'.cStat # "656") =>
            (pc = "avancar" /\ docIdx = NumDocs + 1)]_vars

\* C21: a document without infNFe is skipped with no write; for a document
\* with infNFe the iteration registers the key (insert-or-ignore), then
\* attempts the file (a failed write is swallowed and leaves the disk as it
\* was), then upserts the record; an iteration that raises has done a prefix
\* of these three, never a later one without the earlier; the cursor is
\* written to the response's ultNSU only after the last document was
\* attempted.
C21_RegistraGravaProjetaNessaOrdem ==
    [][/\ (pc = "docs" /\ xml.tipo # "nfe") => UNCHANGED <<xmls_baixados, arquivos, notas_detalhadas>>
       /\ (pc = "docs" /\ xml.tipo = "nfe") =>
            LET registrado == registrar_xml(xmls_baixados, xml.chave, Cert.cnpj)
                noDisco == salvar_xml_por_certificado(arquivos, xml, Cert.cnpj)
                projetado == salvar_nota_detalhada(notas_detalhadas,
                                                   extrair_nota_detalhada(xml, xml.chave))
            IN /\ handler' = "nenhum" =>
                    /\ xmls_baixados' = registrado
                    /\ arquivos' \in {arquivos, noDisco}
                    /\ notas_detalhadas' = projetado
               /\ handler' # "nenhum" =>
                    /\ notas_detalhadas' = notas_detalhadas
                    /\ \/ UNCHANGED <<xmls_baixados, arquivos>>
                       \/ xmls_baixados' = registrado /\ arquivos' \in {arquivos, noDisco}
               /\ arquivos' # arquivos => xmls_baixados'[xml.chave] # 0
               /\ notas_detalhadas' # notas_detalhadas => xmls_baixados'[xml.chave] # 0
       /\ (gravou' # <<>> /\ resp'.cStat # "656") =>
            /\ pc = "avancar"
            /\ docIdx = NumDocs + 1
            /\ gravou' = <<[inf |-> Cert.inf, valor |-> extract_last_nsu(resp')]>>]_vars

C21_Witness ==
    /\ pc = "fetch"
    /\ gravou # <<>>
    /\ resp.cStat = "138"
    /\ resp.nDocs = MaxDocs
    /\ \E k \in Chaves :
         /\ xmls_baixados[k] = Cert.cnpj
         /\ notas_detalhadas[k] # <<>>
         /\ \E p \in Caminhos : /\ p[1] = Cert.cnpj
                                /\ arquivos[p] # <<>>
                                /\ arquivos[p][1].chave = k

C23_MesmoEfeitoNoCursor ==
    [][(mpc = "m_cert" /\ mIdx <= NumCerts) =>
         LET ult == extract_last_nsu(mresp')
             atual == get_last_nsu(MCert.inf)
         IN /\ mresp'.cStat = "656" =>
                 nsu' = IF GravaApos656(ult, atual)
                        THEN set_last_nsu(nsu, MCert.inf, ult) ELSE nsu
            /\ (mresp'.cStat \in Outros /\ nsu' # nsu) =>
                 /\ nsu' = set_last_nsu(nsu, MCert.inf, ult)
                 /\ mresp'.zipErro = "nenhum"]_vars

\* C24: an exception other than a network error raised while a certificate
\* is set up or processed (setting up the service, a fetch that raises
\* something else, an undecodable docZip, a cursor write that fails) ends
\* the processing of that certificate only: the for loop goes to the next
\* certificate without waiting, every remaining certificate gets its turn
\* and after the last one the reconciliation pass starts.
C24_ExcecaoSoEncerraOCertificado ==
    [][/\ (handler' = "certificado" \/ extract_docs_erro(resp') # "nenhum") =>
            /\ pc' = "cert"
            /\ certIdx' = certIdx + 1
            /\ dormiu' = 0
       /\ (pc = "cert" /\ certIdx <= NumCerts) =>
            \/ pc' = "fetch" /\ certIdx' = certIdx
            \/ pc' = "cert" /\ certIdx' = certIdx + 1
       /\ (pc = "cert" /\ certIdx > NumCerts) => pc' = "reconciliar"
       /\ pc = "espera_rede" => pc' = "fetch"]_vars

\* C25: after the same response was processed a second time the dedup
\* ledger and the detailed records (keys, owners, field values) are what
\* they were after the first processing.
C25_ProcessarDuasVezesIgualUmaVez ==
    lpc = "l_fim" =>
        /\ xmls_baixados = lsnap.xmls
        /\ notas_detalhadas = lsnap.notas

C25_Witness ==
    /\ lpc = "l_fim"
    /\ \E k \in Chaves : /\ xmls_baixados[k] \notin {0, CertDoLote.cnpj}
                         /\ notas_detalhadas[k] # <<>>
                         /\ notas_detalhadas[k][1].status # StatusPadrao
    /\ \E k \in Chaves : /\ xmls_baixados[k] = CertDoLote.cnpj
                         /\ notas_detalhadas[k] # <<>>

\* C26: once atualizar_notas_detalhadas has set the status of a record to
\* "Cancelada", no step of the reconciliation pass changes that status.
C26_CanceladaPermanece ==
    [][Len(rfeitos') > Len(rfeitos) =>
         \A k \in Chaves :
             (notas_detalhadas[k] # <<>> /\ notas_detalhadas[k][1].status = Cancelada) =>
                 (notas_detalhadas'[k] # <<>> /\ notas_detalhadas'[k][1].status = Cancelada)]_vars

\* C27: writing the XML of an invoice never overwrites the stored XML of a
\* different invoice: a file that exists is only ever replaced by a document
\* with the same key.
C27_NaoSobrescreveOutraNota ==
    [][\A p \in Caminhos :
          (arquivos[p] # <<>> /\ arquivos'[p] # arquivos[p]) =>
              (arquivos'[p] # <<>> /\ arquivos'[p][1].chave = arquivos[p][1].chave)]_vars

C29_RejeitadoSeESoSeDataPropriaFechada == stmt.rejeitado <=> stmt.fechado

\* C30: a transaction with status CANCELADO keeps it through every statement
\* that inserts, changes or deletes a payment
C30_CanceladoPermanece ==
    [][\A t \in TxIds :
          (/\ transactions[t] # <<>>
           /\ transactions[t][1].status = "CANCELADO"
           /\ payments' # payments
           /\ transactions'[t] # <<>>) =>
              transactions'[t][1].status = "CANCELADO"]_vars

====
